---- MODULE Spec2Model ----
(***************************************************************************)
(* A model of asyncstorageapi (src/index.js): the AsyncStorage API of      *)
(* React-Native backed by a Map, every method wrapped by assign() into a   *)
(* callback/promise wrapper that defers its body with setImmediate.        *)
(*                                                                         *)
(* JavaScript values are records [t, x, e]: t is the type tag, x the       *)
(* primitive payload as a sequence of characters, e the own enumerable     *)
(* properties as a sequence of <<key, value>> in property order.  A string *)
(* is the sequence of its characters, so JSON.parse is a parser and        *)
(* JSON.stringify a printer.  The JSON the model draws uses integers,      *)
(* strings without \b and \u escapes, true/false/null, objects and arrays, *)
(* and property names that are not names of Object.prototype properties.   *)
(***************************************************************************)
EXTENDS Integers, Sequences, FiniteSets, TLC

----------------------------------------------------------------------------
(* JavaScript values                                                       *)

Val(t, x, e) == [t |-> t, x |-> x, e |-> e]

Undefined == Val("undefined", <<>>, <<>>)
Null      == Val("null", <<>>, <<>>)
True      == Val("boolean", <<"t", "r", "u", "e">>, <<>>)
False     == Val("boolean", <<"f", "a", "l", "s", "e">>, <<>>)
Num(x)    == Val("number", x, <<>>)
Str(x)    == Val("string", x, <<>>)
Obj(e)    == Val("object", <<>>, e)
MapRef    == Val("Map", <<>>, <<>>)
Fn        == Val("function", <<>>, <<>>)
Err(name) == Val("Error", <<name>>, <<>>)

Bool(b) == IF b THEN True ELSE False

TypeOf(v) ==
  CASE v.t = "undefined" -> "undefined"
    [] v.t = "boolean"   -> "boolean"
    [] v.t = "number"    -> "number"
    [] v.t = "string"    -> "string"
    [] v.t = "function"  -> "function"
    [] OTHER             -> "object"

\* v == null, the loose test a Node-style callback applies to its arguments
IsNullish(v) == v.t \in {"undefined", "null"}

\* ToBoolean, as used by `target || {}`
Truthy(v) ==
  CASE v.t \in {"undefined", "null"} -> FALSE
    [] v.t = "boolean" -> v = True
    [] v.t = "number"  -> v.x # <<"0">>
    [] v.t = "string"  -> v.x # <<>>
    [] OTHER           -> TRUE

\* value instanceof Object
InstanceOfObject(v) ==
  v.t \in {"object", "array", "Number", "String", "Boolean", "Map", "Error", "function"}

Digits == <<"0", "1", "2", "3", "4", "5", "6", "7", "8", "9">>

IsDigit(c) == \E i \in 1..Len(Digits) : Digits[i] = c

DigitVal(c) == (CHOOSE i \in 1..Len(Digits) : Digits[i] = c) - 1

RECURSIVE IntToChars(_)
IntToChars(n) ==
  IF n < 10 THEN <<Digits[n + 1]>>
  ELSE IntToChars(n \div 10) \o <<Digits[(n % 10) + 1]>>

RECURSIVE CharsToInt(_)
CharsToInt(x) ==
  IF x = <<>> THEN 0
  ELSE 10 * CharsToInt(SubSeq(x, 1, Len(x) - 1)) + DigitVal(x[Len(x)])

\* a canonical array index: "0", or digits without a leading zero
IsIndexKey(k) ==
  /\ k # <<>>
  /\ \A i \in 1..Len(k) : IsDigit(k[i])
  /\ (Len(k) > 1 => k[1] # "0")

\* the own enumerable property keys of v, in property order
OwnKeys(v) ==
  IF v.t \in {"string", "String"}
  THEN [i \in 1..Len(v.x) |-> IntToChars(i - 1)] \o [i \in 1..Len(v.e) |-> v.e[i][1]]
  ELSE [i \in 1..Len(v.e) |-> v.e[i][1]]

\* the length of an array: one past its largest index
ArrayLength(v) ==
  LET idx == {CharsToInt(v.e[i][1]) : i \in {j \in 1..Len(v.e) : IsIndexKey(v.e[j][1])}}
  IN  IF idx = {} THEN 0 ELSE 1 + (CHOOSE m \in idx : \A n \in idx : n <= m)

\* v[k] for a v that is neither undefined nor null
Get(v, k) ==
  IF v.t \in {"string", "String"} /\ IsIndexKey(k) /\ CharsToInt(k) < Len(v.x)
  THEN Str(<<v.x[CharsToInt(k) + 1]>>)
  ELSE IF \E i \in 1..Len(v.e) : v.e[i][1] = k
  THEN v.e[CHOOSE i \in 1..Len(v.e) : v.e[i][1] = k][2]
  ELSE Undefined

\* where a new property k goes: indices ascending first, then creation order
InsertAt(e, k) ==
  IF IsIndexKey(k)
  THEN 1 + Cardinality({i \in 1..Len(e) :
                          IsIndexKey(e[i][1]) /\ CharsToInt(e[i][1]) < CharsToInt(k)})
  ELSE Len(e) + 1

\* o[k] = v on an object, array or wrapper that may take the property
PutProp(o, k, v) ==
  IF \E i \in 1..Len(o.e) : o.e[i][1] = k
  THEN [o EXCEPT !.e = [i \in 1..Len(o.e) |->
                          IF o.e[i][1] = k THEN <<k, v>> ELSE o.e[i]]]
  ELSE LET p == InsertAt(o.e, k)
       IN  [o EXCEPT !.e = SubSeq(o.e, 1, p - 1) \o <<<<k, v>>>>
                             \o SubSeq(o.e, p, Len(o.e))]

\* the characters of a String object are read-only properties
ReadOnly(o, k) ==
  /\ o.t = "String"
  /\ IsIndexKey(k)
  /\ CharsToInt(k) < Len(o.x)

\* an array built from the sequence of its elements
Arr(s) == Val("array", <<>>, [i \in 1..Len(s) |-> <<IntToChars(i - 1), s[i]>>])

\* the elements of an array, holes read as undefined
Elements(v) == [i \in 1..ArrayLength(v) |-> Get(v, IntToChars(i - 1))]

\* ToObject of a truthy primitive
ToObject(v) ==
  CASE v.t = "number"  -> Val("Number", v.x, <<>>)
    [] v.t = "string"  -> Val("String", v.x, <<>>)
    [] v.t = "boolean" -> Val("Boolean", v.x, <<>>)
    [] OTHER           -> v

\* Object.assign(to, from): [ok, v], ok = FALSE when it throws a TypeError
RECURSIVE AssignKeys(_, _, _)
AssignKeys(to, from, keys) ==
  IF keys = <<>> THEN [ok |-> TRUE, v |-> to]
  ELSE IF ReadOnly(to, Head(keys)) THEN [ok |-> FALSE, v |-> to]
  ELSE AssignKeys(PutProp(to, Head(keys), Get(from, Head(keys))), from, Tail(keys))

ObjectAssign(to, from) ==
  IF IsNullish(from) THEN [ok |-> TRUE, v |-> to]
  ELSE AssignKeys(to, from, OwnKeys(from))

----------------------------------------------------------------------------
(* JSON.parse and JSON.stringify                                           *)

Whitespace == {" ", "\t", "\n", "\r"}

ParseFail == [ok |-> FALSE, v |-> Undefined, n |-> 0]

RECURSIVE SkipWs(_, _)
SkipWs(s, i) ==
  IF i <= Len(s) /\ s[i] \in Whitespace THEN SkipWs(s, i + 1) ELSE i

MatchAt(s, i, lit) ==
  /\ i + Len(lit) - 1 <= Len(s)
  /\ SubSeq(s, i, i + Len(lit) - 1) = lit

\* the character an escape sequence \c stands for, <<>> when there is none
Unescape(c) ==
  CASE c = "\"" -> <<"\"">>
    [] c = "\\" -> <<"\\">>
    [] c = "/"  -> <<"/">>
    [] c = "n"  -> <<"\n">>
    [] c = "t"  -> <<"\t">>
    [] c = "r"  -> <<"\r">>
    [] c = "f"  -> <<"\f">>
    [] OTHER    -> <<>>

\* the characters of a string literal, i just after its opening quote
RECURSIVE ParseString(_, _, _)
ParseString(s, i, acc) ==
  IF i > Len(s) THEN ParseFail
  ELSE IF s[i] = "\"" THEN [ok |-> TRUE, v |-> Str(acc), n |-> i + 1]
  ELSE IF s[i] = "\\"
  THEN IF i + 1 > Len(s) \/ Unescape(s[i + 1]) = <<>> THEN ParseFail
       ELSE ParseString(s, i + 2, acc \o Unescape(s[i + 1]))
  ELSE IF s[i] \in {"\n", "\t", "\r", "\f"} THEN ParseFail
  ELSE ParseString(s, i + 1, Append(acc, s[i]))

\* the last index of the run of digits that starts at i
RECURSIVE DigitsEnd(_, _)
DigitsEnd(s, i) ==
  IF i + 1 <= Len(s) /\ IsDigit(s[i + 1]) THEN DigitsEnd(s, i + 1) ELSE i

\* an integer literal: -0 is 0, a leading zero ends the literal
ParseNumber(s, i) ==
  LET j == IF s[i] = "-" THEN i + 1 ELSE i
      Literal(k) ==
        [ok |-> TRUE,
         v  |-> Num(IF j > i /\ SubSeq(s, j, k) # <<"0">>
                    THEN <<"-">> \o SubSeq(s, j, k) ELSE SubSeq(s, j, k)),
         n  |-> k + 1]
  IN  IF j > Len(s) \/ ~IsDigit(s[j]) THEN ParseFail
      ELSE Literal(IF s[j] = "0" THEN j ELSE DigitsEnd(s, j))

RECURSIVE ParseValue(_, _)
RECURSIVE ParseMembers(_, _, _)
RECURSIVE ParseElements(_, _, _)

\* the members of an object, i at the quote that opens the next name; a
\* repeated name overwrites the earlier member in place
ParseMembers(s, i, acc) ==
  LET Rest(obj, d) ==
        IF d > Len(s) THEN ParseFail
        ELSE IF s[d] = "," THEN ParseMembers(s, SkipWs(s, d + 1), obj)
        ELSE IF s[d] = "}" THEN [ok |-> TRUE, v |-> obj, n |-> d + 1]
        ELSE ParseFail
      Member(key, val) ==
        IF ~val.ok THEN ParseFail
        ELSE Rest(PutProp(acc, key.v.x, val.v), SkipWs(s, val.n))
      Colon(key, c) ==
        IF c > Len(s) \/ s[c] # ":" THEN ParseFail
        ELSE Member(key, ParseValue(s, SkipWs(s, c + 1)))
      Name(key) == IF ~key.ok THEN ParseFail ELSE Colon(key, SkipWs(s, key.n))
  IN  IF i > Len(s) \/ s[i] # "\"" THEN ParseFail
      ELSE Name(ParseString(s, i + 1, <<>>))

\* the elements of an array, i at the start of the next element
ParseElements(s, i, acc) ==
  LET Rest(all, d) ==
        IF d > Len(s) THEN ParseFail
        ELSE IF s[d] = "," THEN ParseElements(s, SkipWs(s, d + 1), all)
        ELSE IF s[d] = "]" THEN [ok |-> TRUE, v |-> Arr(all), n |-> d + 1]
        ELSE ParseFail
      Element(val) ==
        IF ~val.ok THEN ParseFail ELSE Rest(Append(acc, val.v), SkipWs(s, val.n))
  IN  Element(ParseValue(s, i))

ParseValue(s, i) ==
  IF i > Len(s) THEN ParseFail
  ELSE IF s[i] = "{"
  THEN LET j == SkipWs(s, i + 1)
       IN  IF j <= Len(s) /\ s[j] = "}" THEN [ok |-> TRUE, v |-> Obj(<<>>), n |-> j + 1]
           ELSE ParseMembers(s, j, Obj(<<>>))
  ELSE IF s[i] = "["
  THEN LET j == SkipWs(s, i + 1)
       IN  IF j <= Len(s) /\ s[j] = "]" THEN [ok |-> TRUE, v |-> Arr(<<>>), n |-> j + 1]
           ELSE ParseElements(s, j, <<>>)
  ELSE IF s[i] = "\"" THEN ParseString(s, i + 1, <<>>)
  ELSE IF s[i] = "-" \/ IsDigit(s[i]) THEN ParseNumber(s, i)
  ELSE IF MatchAt(s, i, True.x) THEN [ok |-> TRUE, v |-> True, n |-> i + 4]
  ELSE IF MatchAt(s, i, False.x) THEN [ok |-> TRUE, v |-> False, n |-> i + 5]
  ELSE IF MatchAt(s, i, <<"n", "u", "l", "l">>) THEN [ok |-> TRUE, v |-> Null, n |-> i + 4]
  ELSE ParseFail

\* ToString of the argument of JSON.parse
ToStringChars(v) ==
  CASE v.t = "undefined" -> <<"u", "n", "d", "e", "f", "i", "n", "e", "d">>
    [] v.t = "null"      -> <<"n", "u", "l", "l">>
    [] v.t \in {"string", "number", "boolean", "String", "Number", "Boolean"} -> v.x
    [] OTHER -> <<"[", "o", "b", "j", "e", "c", "t", " ", "O", "b", "j", "e", "c", "t", "]">>

\* JSON.parse(v): [ok, v], ok = FALSE when it throws a SyntaxError
JSONParse(v) ==
  LET Whole(s, r) ==
        IF r.ok /\ SkipWs(s, r.n) = Len(s) + 1
        THEN [ok |-> TRUE, v |-> r.v]
        ELSE [ok |-> FALSE, v |-> Undefined]
      Text(s) == Whole(s, ParseValue(s, SkipWs(s, 1)))
  IN  Text(ToStringChars(v))

EscapeChar(c) ==
  CASE c = "\"" -> <<"\\", "\"">>
    [] c = "\\" -> <<"\\", "\\">>
    [] c = "\n" -> <<"\\", "n">>
    [] c = "\t" -> <<"\\", "t">>
    [] c = "\r" -> <<"\\", "r">>
    [] c = "\f" -> <<"\\", "f">>
    [] OTHER    -> <<c>>

RECURSIVE Escape(_)
Escape(x) == IF x = <<>> THEN <<>> ELSE EscapeChar(Head(x)) \o Escape(Tail(x))

Quote(x) == <<"\"">> \o Escape(x) \o <<"\"">>

RECURSIVE StringifyChars(_)
RECURSIVE JoinMembers(_, _)
RECURSIVE JoinElements(_, _)

\* the members of an object; a member whose value is undefined is left out
JoinMembers(e, first) ==
  IF e = <<>> THEN <<>>
  ELSE IF Head(e)[2].t = "undefined" THEN JoinMembers(Tail(e), first)
  ELSE (IF first THEN <<>> ELSE <<",">>)
         \o Quote(Head(e)[1]) \o <<":">> \o StringifyChars(Head(e)[2])
         \o JoinMembers(Tail(e), FALSE)

\* the elements of an array; a hole or undefined prints as null
JoinElements(s, first) ==
  IF s = <<>> THEN <<>>
  ELSE (IF first THEN <<>> ELSE <<",">>)
         \o StringifyChars(IF Head(s).t = "undefined" THEN Null ELSE Head(s))
         \o JoinElements(Tail(s), FALSE)

StringifyChars(v) ==
  CASE v.t = "null" -> <<"n", "u", "l", "l">>
    [] v.t \in {"boolean", "Boolean", "number", "Number"} -> v.x
    [] v.t \in {"string", "String"} -> Quote(v.x)
    [] v.t = "array" -> <<"[">> \o JoinElements(Elements(v), TRUE) \o <<"]">>
    [] OTHER -> <<"{">> \o JoinMembers(v.e, TRUE) \o <<"}">>

\* JSON.stringify(v)
JSONStringify(v) == IF v.t = "undefined" THEN Undefined ELSE Str(StringifyChars(v))

----------------------------------------------------------------------------
(* merge, src/index.js:16                                                  *)

Throw == [ok |-> FALSE, v |-> Undefined]

\* a merge that only assigns the top-level properties
mergeShallow(target, data) ==
  IF IsNullish(data) THEN Throw
  ELSE ObjectAssign(IF Truthy(target) THEN ToObject(target) ELSE Obj(<<>>), data)

RECURSIVE merge(_, _)
RECURSIVE mergeKeys(_, _, _)

\* the forEach over the keys of data whose value is an Object: data[key]
\* takes the properties of merge(target[key], data[key])
mergeKeys(target, data, keys) ==
  IF keys = <<>> THEN [ok |-> TRUE, v |-> data]
  ELSE IF IsNullish(target) THEN Throw
  ELSE LET Assigned(a) ==
             IF ~a.ok THEN Throw
             ELSE mergeKeys(target, PutProp(data, Head(keys), a.v), Tail(keys))
           Merged(m) ==
             IF ~m.ok THEN Throw
             ELSE Assigned(ObjectAssign(Get(data, Head(keys)), m.v))
       IN  Merged(merge(Get(target, Head(keys)), Get(data, Head(keys))))

\* merge(target, data): [ok, v], ok = FALSE when it throws a TypeError
merge(target, data) ==
  IF IsNullish(data) THEN Throw
  ELSE LET keys == SelectSeq(OwnKeys(data), LAMBDA k : InstanceOfObject(Get(data, k)))
           Assigned(d) ==
             IF ~d.ok THEN Throw
             ELSE ObjectAssign(IF Truthy(target) THEN ToObject(target) ELSE Obj(<<>>), d.v)
       IN  Assigned(mergeKeys(target, data, keys))

----------------------------------------------------------------------------
(* the Map behind the store, src/index.js:7: <<key, value>> entries in     *)
(* insertion order                                                         *)

MapHas(m, k) == \E i \in 1..Len(m) : m[i][1] = k

MapGet(m, k) ==
  IF MapHas(m, k) THEN m[CHOOSE i \in 1..Len(m) : m[i][1] = k][2] ELSE Undefined

\* a set that moves a key it overwrites to the end
MapSetLast(m, k, v) == Append(SelectSeq(m, LAMBDA en : en[1] # k), <<k, v>>)

MapSet(m, k, v) ==
  IF MapHas(m, k)
  THEN [i \in 1..Len(m) |-> IF m[i][1] = k THEN <<k, v>> ELSE m[i]]
  ELSE Append(m, <<k, v>>)

\* a delete that leaves the key
MapDeleteNothing(m, k) == m

MapDelete(m, k) == SelectSeq(m, LAMBDA en : en[1] # k)

MapKeys(m) == [i \in 1..Len(m) |-> m[i][1]]

----------------------------------------------------------------------------
(* the methods of AsyncStorage, src/index.js:77-216: each takes the Map    *)
(* and its arguments and yields the Map it leaves, the error it throws     *)
(* (null when it returns) and the value it returns                         *)

Arg(args, i) == IF i <= Len(args) THEN args[i] ELSE Undefined

Returns(m, v) == [store |-> m, error |-> Null, result |-> v]

Throws(m, e) == [store |-> m, error |-> e, result |-> Undefined]

StringsStored == Err("AsyncStorage requires strings to be stored")

StringsMerged == Err("AsyncStorage requires strings to be merged")

\* getItem with its has() test inverted
getItemInverted(m, args) ==
  LET name == Arg(args, 1)
  IN  IF MapHas(m, name) THEN Returns(m, Null)
      ELSE Returns(m, MapGet(m, name))

getItem(m, args) ==
  LET name == Arg(args, 1)
  IN  IF ~MapHas(m, name) THEN Returns(m, Null)
      ELSE Returns(m, MapGet(m, name))

\* setItem without its typeof test
setItemUnchecked(m, args) ==
  Returns(MapSet(m, Arg(args, 1), Arg(args, 2)), MapRef)

\* setItem with its typeof test after the set
setItemLateCheck(m, args) ==
  LET name  == Arg(args, 1)
      value == Arg(args, 2)
  IN  IF TypeOf(value) # "string" THEN Throws(MapSet(m, name, value), StringsStored)
      ELSE Returns(MapSet(m, name, value), MapRef)

setItem(m, args) ==
  LET name  == Arg(args, 1)
      value == Arg(args, 2)
  IN  IF TypeOf(value) # "string" THEN Throws(m, StringsStored)
      ELSE Returns(MapSet(m, name, value), MapRef)

\* a merge that takes a missing or undecodable old value for {}
MergeIntoEmpty(m, name, value) ==
  LET Set(merged) ==
        IF ~merged.ok THEN Throws(m, Err("TypeError"))
        ELSE Returns(MapSet(m, name, JSONStringify(merged.v)), MapRef)
      New(oldValue, newValue) ==
        IF ~newValue.ok THEN Throws(m, Err("SyntaxError"))
        ELSE Set(merge(IF oldValue.ok THEN oldValue.v ELSE Obj(<<>>), newValue.v))
  IN  New(JSONParse(MapGet(m, name)), JSONParse(value))

\* the three lines both merge methods share: parse the old value, parse
\* the new one, store the stringified merge
MergeInto(m, name, value) ==
  LET Set(merged) ==
        IF ~merged.ok THEN Throws(m, Err("TypeError"))
        ELSE Returns(MapSet(m, name, JSONStringify(merged.v)), MapRef)
      New(oldValue, newValue) ==
        IF ~newValue.ok THEN Throws(m, Err("SyntaxError"))
        ELSE Set(merge(oldValue.v, newValue.v))
      Old(oldValue) ==
        IF ~oldValue.ok THEN Throws(m, Err("SyntaxError"))
        ELSE New(oldValue, JSONParse(value))
  IN  Old(JSONParse(MapGet(m, name)))

mergeItem(m, args) ==
  LET name  == Arg(args, 1)
      value == Arg(args, 2)
  IN  IF TypeOf(value) # "string" THEN Throws(m, StringsStored)
      ELSE MergeInto(m, name, value)

\* removeItem without its return
removeItemNoReturn(m, args) == Returns(MapDelete(m, Arg(args, 1)), Undefined)

removeItem(m, args) ==
  LET name == Arg(args, 1)
  IN  Returns(MapDelete(m, name), Bool(MapHas(m, name)))

\* multiGet without its has() test
multiGetNoHas(m, args) ==
  LET names == Arg(args, 1)
  IN  IF names.t # "array" THEN Throws(m, Err("TypeError"))
      ELSE Returns(m, Arr([i \in 1..ArrayLength(names) |->
             Arr(<<Elements(names)[i], MapGet(m, Elements(names)[i])>>)]))

multiGet(m, args) ==
  LET names == Arg(args, 1)
  IN  IF names.t # "array" THEN Throws(m, Err("TypeError"))
      ELSE Returns(m, Arr([i \in 1..ArrayLength(names) |->
             LET name == Elements(names)[i]
             IN  Arr(<<name, IF MapHas(m, name) THEN MapGet(m, name) ELSE Null>>)]))

\* a multiSet that tests every value before it sets any
RECURSIVE SetAll(_, _)
SetAll(m, pairs) ==
  IF pairs = <<>> THEN m
  ELSE SetAll(MapSet(m, Get(Head(pairs), <<"0">>), Get(Head(pairs), <<"1">>)), Tail(pairs))

multiSetEachAtomic(m, pairs) ==
  IF \E i \in 1..Len(pairs) : TypeOf(Get(pairs[i], <<"1">>)) # "string"
  THEN Throws(m, StringsStored)
  ELSE Returns(SetAll(m, pairs), Undefined)

\* pairs.forEach of multiSet over the pairs that remain
RECURSIVE multiSetEach(_, _)
multiSetEach(m, pairs) ==
  IF pairs = <<>> THEN Returns(m, Undefined)
  ELSE IF IsNullish(Head(pairs)) THEN Throws(m, Err("TypeError"))
  ELSE IF TypeOf(Get(Head(pairs), <<"1">>)) # "string" THEN Throws(m, StringsStored)
  ELSE multiSetEach(MapSet(m, Get(Head(pairs), <<"0">>), Get(Head(pairs), <<"1">>)),
                    Tail(pairs))

multiSet(m, args) ==
  LET pairs == Arg(args, 1)
      Done(each) ==
        IF ~IsNullish(each.error) THEN each ELSE Returns(each.store, pairs)
  IN  IF pairs.t # "array" THEN Throws(m, Err("TypeError"))
      ELSE Done(multiSetEach(m, Elements(pairs)))

\* pairs.forEach of multiMerge over the pairs that remain
RECURSIVE multiMergeEach(_, _)
multiMergeEach(m, pairs) ==
  IF pairs = <<>> THEN Returns(m, Undefined)
  ELSE IF IsNullish(Head(pairs)) THEN Throws(m, Err("TypeError"))
  ELSE IF TypeOf(Get(Head(pairs), <<"1">>)) # "string" THEN Throws(m, StringsMerged)
  ELSE LET Merged(one) ==
             IF ~IsNullish(one.error) THEN one
             ELSE multiMergeEach(one.store, Tail(pairs))
       IN  Merged(MergeInto(m, Get(Head(pairs), <<"0">>), Get(Head(pairs), <<"1">>)))

multiMerge(m, args) ==
  LET pairs == Arg(args, 1)
  IN  IF pairs.t # "array" THEN Throws(m, Err("TypeError"))
      ELSE multiMergeEach(m, Elements(pairs))

\* a multiRemove that looks every name up before it deletes any
RECURSIVE DeleteAll(_, _)
DeleteAll(m, names) ==
  IF names = <<>> THEN m ELSE DeleteAll(MapDelete(m, Head(names)), Tail(names))

multiRemoveEachSnapshot(m, names, acc) ==
  Returns(DeleteAll(m, names),
          Arr(acc \o [i \in 1..Len(names) |-> Bool(MapHas(m, names[i]))]))

\* names.map of multiRemove over the names that remain, acc the booleans
RECURSIVE multiRemoveEach(_, _, _)
multiRemoveEach(m, names, acc) ==
  IF names = <<>> THEN Returns(m, Arr(acc))
  ELSE multiRemoveEach(MapDelete(m, Head(names)), Tail(names),
                       Append(acc, Bool(MapHas(m, Head(names)))))

multiRemove(m, args) ==
  LET names == Arg(args, 1)
  IN  IF names.t # "array" THEN Throws(m, Err("TypeError"))
      ELSE multiRemoveEach(m, Elements(names), <<>>)

getAllKeys(m, args) == Returns(m, Arr(MapKeys(m)))

\* clear without its internal.clear()
clearNothing(m, args) == Returns(m, Undefined)

clear(m, args) == Returns(<<>>, Undefined)

flushGetRequests(m, args) == Returns(m, Undefined)

\* fn(...args) for the method assign() registered under name
Apply(name, m, args) ==
  CASE name = "getItem"     -> getItem(m, args)
    [] name = "setItem"     -> setItem(m, args)
    [] name = "mergeItem"   -> mergeItem(m, args)
    [] name = "removeItem"  -> removeItem(m, args)
    [] name = "multiGet"    -> multiGet(m, args)
    [] name = "multiSet"    -> multiSet(m, args)
    [] name = "multiMerge"  -> multiMerge(m, args)
    [] name = "multiRemove" -> multiRemove(m, args)
    [] name = "getAllKeys"  -> getAllKeys(m, args)
    [] name = "clear"       -> clear(m, args)
    [] OTHER                -> flushGetRequests(m, args)

----------------------------------------------------------------------------
(* the wrapper assign() builds, src/index.js:31-56                         *)

VARIABLES
  internal,    \* the Map: <<key, value>> entries in insertion order
  calls,       \* one record per wrapper call, in the order of the calls
  immediates,  \* the setImmediate queue: indices into calls
  stack,       \* "caller" while code of a caller runs, else "idle"
  issued,      \* the calls made by the code that is running
  last,        \* the awaited call that just completed and the Map it found
  fresh        \* per key: the value of its latest successful setItem while
               \* no later call wrote, merged, removed or cleared the key

vars == <<internal, calls, immediates, stack, issued, last, fresh>>

\* the most calls the callers make
MaxOps == 2

\* the most names or pairs in the argument of a multi method
MaxLen == 2

\* typeof args[args.length - 1] === 'function'
HasCallback(args) == args # <<>> /\ TypeOf(args[Len(args)]) = "function"

\* the arguments left once args.pop() took the callback
Stripped(args) ==
  IF HasCallback(args) THEN SubSeq(args, 1, Len(args) - 1) ELSE args

\* wrapper(...args): the promise is pending and forcedAsync is scheduled
NewCall(name, args) ==
  [name    |-> name,
   args    |-> args,
   pc      |-> "scheduled",
   error   |-> Null,
   result  |-> Undefined,
   promise |-> "pending",
   value   |-> Undefined,
   called  |-> <<>>]

\* try { result = await fn(...args) } catch (e) { error = e } on the Map m
Ran(c, m) == Apply(c.name, m, Stripped(c.args))

\* forcedAsync up to its await: fn(...args) ran on the Map m
RunCall(c, m) ==
  LET Caught(r) == [c EXCEPT !.pc = "awaiting", !.error = r.error, !.result = r.result]
  IN  Caught(Ran(c, m))

\* forcedAsync without its `if (error) return reject(error)`
SettleCallNoReject(c) ==
  IF HasCallback(c.args)
  THEN [c EXCEPT !.pc = "done", !.called = Append(@, <<c.error, c.result>>)]
  ELSE [c EXCEPT !.pc = "done", !.promise = "resolved", !.value = c.result]

\* forcedAsync with callback(null, result) for its callback
SettleCallSwallow(c) ==
  IF HasCallback(c.args)
  THEN [c EXCEPT !.pc = "done", !.called = Append(@, <<Null, c.result>>)]
  ELSE IF Truthy(c.error)
  THEN [c EXCEPT !.pc = "done", !.promise = "rejected", !.value = c.error]
  ELSE [c EXCEPT !.pc = "done", !.promise = "resolved", !.value = c.result]

\* forcedAsync that goes on to reject or resolve after its callback
SettleCallBoth(c) ==
  IF Truthy(c.error)
  THEN [c EXCEPT !.pc = "done", !.promise = "rejected", !.value = c.error,
                 !.called = IF HasCallback(c.args)
                            THEN Append(@, <<c.error, c.result>>) ELSE @]
  ELSE [c EXCEPT !.pc = "done", !.promise = "resolved", !.value = c.result,
                 !.called = IF HasCallback(c.args)
                            THEN Append(@, <<c.error, c.result>>) ELSE @]

\* forcedAsync after its await: the callback, reject or resolve
SettleCall(c) ==
  IF HasCallback(c.args)
  THEN [c EXCEPT !.pc = "done", !.called = Append(@, <<c.error, c.result>>)]
  ELSE IF Truthy(c.error)
  THEN [c EXCEPT !.pc = "done", !.promise = "rejected", !.value = c.error]
  ELSE [c EXCEPT !.pc = "done", !.promise = "resolved", !.value = c.result]

NoCall == NewCall("", <<>>)

Init ==
  /\ internal = <<>>
  /\ calls = <<>>
  /\ immediates = <<>>
  /\ stack = "idle"
  /\ issued = {}
  /\ last = [call |-> NoCall, before |-> <<>>]
  /\ fresh = <<>>

Awaiting == {id \in 1..Len(calls) : calls[id].pc = "awaiting"}

\* code of a caller starts to run: a script, a timer, the code after an await
CallerEnter ==
  /\ stack = "idle"
  /\ Awaiting = {}
  /\ Len(calls) < MaxOps
  /\ stack' = "caller"
  /\ issued' = {}
  /\ UNCHANGED <<internal, calls, immediates, last, fresh>>

\* the code of the caller returns to the event loop
CallerReturn ==
  /\ stack = "caller"
  /\ stack' = "idle"
  /\ issued' = {}
  /\ UNCHANGED <<internal, calls, immediates, last, fresh>>

\* a wrapper without setImmediate: the method runs in the call
wrapperInline(name, args) ==
  /\ stack = "caller"
  /\ Len(calls) < MaxOps
  /\ calls' = Append(calls, SettleCall(RunCall(NewCall(name, args), internal)))
  /\ internal' = Ran(NewCall(name, args), internal).store
  /\ issued' = issued \cup {Len(calls) + 1}
  /\ UNCHANGED <<immediates, stack, last, fresh>>

\* AsyncStorage[name](...args) called by the running code
wrapper(name, args) ==
  /\ stack = "caller"
  /\ Len(calls) < MaxOps
  /\ calls' = Append(calls, NewCall(name, args))
  /\ immediates' = Append(immediates, Len(calls) + 1)
  /\ issued' = issued \cup {Len(calls) + 1}
  /\ UNCHANGED <<internal, stack, last, fresh>>

\* an event loop that runs the newest immediate first
forcedAsyncNewest ==
  /\ stack = "idle"
  /\ Awaiting = {}
  /\ immediates # <<>>
  /\ calls' = [calls EXCEPT ![immediates[Len(immediates)]] = RunCall(@, internal)]
  /\ internal' = Ran(calls[immediates[Len(immediates)]], internal).store
  /\ immediates' = SubSeq(immediates, 1, Len(immediates) - 1)
  /\ UNCHANGED <<stack, issued, last, fresh>>

\* a body that works on the Map as it was before any of the calls ran
forcedAsyncStale ==
  /\ stack = "idle"
  /\ Awaiting = {}
  /\ immediates # <<>>
  /\ calls' = [calls EXCEPT ![Head(immediates)] = RunCall(@, last.before)]
  /\ internal' = Ran(calls[Head(immediates)], last.before).store
  /\ immediates' = Tail(immediates)
  /\ UNCHANGED <<stack, issued, last, fresh>>

\* the event loop runs the oldest immediate: forcedAsync up to its await
forcedAsync ==
  /\ stack = "idle"
  /\ Awaiting = {}
  /\ immediates # <<>>
  /\ calls' = [calls EXCEPT ![Head(immediates)] = RunCall(@, internal)]
  /\ internal' = Ran(calls[Head(immediates)], internal).store
  /\ immediates' = Tail(immediates)
  /\ UNCHANGED <<stack, issued, last, fresh>>

\* the microtask that resumes forcedAsync after its await; the code of a
\* callback runs on its stack
forcedAsyncResume ==
  /\ stack = "idle"
  /\ \E id \in Awaiting :
       /\ calls' = [calls EXCEPT ![id] = SettleCall(calls[id])]
       /\ stack' = IF HasCallback(calls[id].args) THEN "caller" ELSE "idle"
  /\ issued' = {}
  /\ UNCHANGED <<internal, immediates, last, fresh>>

----------------------------------------------------------------------------
(* the calls the callers make                                              *)

KeyA == Str(<<"a">>)
KeyB == Str(<<"b">>)
Keys == {KeyA, KeyB}

\* 'bar', {"p":1}, {"d":{"q":2}} and the object {}
Plain     == Str(<<"b", "a", "r">>)
Json1     == Str(<<"{", "\"", "p", "\"", ":", "1", "}">>)
Json2     == Str(<<"{", "\"", "d", "\"", ":", "{", "\"", "q", "\"", ":", "2", "}", "}">>)
NotString == Obj(<<>>)

Values == {Plain, Json1, Json2, NotString}

\* without and with a trailing callback
Trailing == {<<>>, <<Fn>>}

\* the sequences over S of length at most n
RECURSIVE SeqsUpTo(_, _)
SeqsUpTo(S, n) ==
  IF n = 0 THEN {<<>>}
  ELSE LET shorter == SeqsUpTo(S, n - 1)
       IN  shorter \cup {Append(q, x) : q \in shorter, x \in S}

PairOf(k, v) == Arr(<<k, v>>)

CallKeys   == {KeyA}
CallValues == {Json1, NotString}
CallNames  == {Arr(<<k>>) : k \in CallKeys}
CallPairs  == {Arr(<<PairOf(k, v)>>) : k \in CallKeys, v \in CallValues}

CallGetItem ==
  \E k \in CallKeys, cb \in Trailing : wrapper("getItem", <<k>> \o cb)

CallSetItem ==
  \E k \in CallKeys, v \in CallValues, cb \in Trailing : wrapper("setItem", <<k, v>> \o cb)

CallMergeItem ==
  \E k \in CallKeys, v \in CallValues, cb \in Trailing : wrapper("mergeItem", <<k, v>> \o cb)

CallRemoveItem ==
  \E k \in CallKeys, cb \in Trailing : wrapper("removeItem", <<k>> \o cb)

CallMultiGet ==
  \E names \in CallNames, cb \in Trailing : wrapper("multiGet", <<names>> \o cb)

CallMultiSet ==
  \E pairs \in CallPairs, cb \in Trailing : wrapper("multiSet", <<pairs>> \o cb)

CallMultiMerge ==
  \E pairs \in CallPairs, cb \in Trailing : wrapper("multiMerge", <<pairs>> \o cb)

CallMultiRemove ==
  \E names \in CallNames, cb \in Trailing : wrapper("multiRemove", <<names>> \o cb)

CallGetAllKeys == \E cb \in Trailing : wrapper("getAllKeys", cb)

CallClear == \E cb \in Trailing : wrapper("clear", cb)

CallFlushGetRequests == \E cb \in Trailing : wrapper("flushGetRequests", cb)

Next ==
  \/ CallerEnter
  \/ CallerReturn
  \/ CallGetItem
  \/ CallSetItem
  \/ CallMergeItem
  \/ CallRemoveItem
  \/ CallMultiGet
  \/ CallMultiSet
  \/ CallMultiMerge
  \/ CallMultiRemove
  \/ CallGetAllKeys
  \/ CallClear
  \/ CallFlushGetRequests
  \/ forcedAsync
  \/ forcedAsyncResume

Spec == Init /\ [][Next]_vars

----------------------------------------------------------------------------
(* a caller that awaits every call before it makes the next, as the tests  *)
(* do: wrapper, forcedAsync and its resumption with nothing in between     *)

\* the call names key k as one it writes, merges, removes or clears
Writes(name, args, k) ==
  \/ name \in {"setItem", "mergeItem", "removeItem"} /\ Arg(args, 1) = k
  \/ /\ name \in {"multiSet", "multiMerge"}
     /\ Arg(args, 1).t = "array"
     /\ \E i \in 1..ArrayLength(Arg(args, 1)) :
          /\ ~IsNullish(Elements(Arg(args, 1))[i])
          /\ Get(Elements(Arg(args, 1))[i], <<"0">>) = k
  \/ /\ name = "multiRemove"
     /\ Arg(args, 1).t = "array"
     /\ \E i \in 1..ArrayLength(Arg(args, 1)) : Elements(Arg(args, 1))[i] = k
  \/ name = "clear"

\* fresh after the call: <<key, value>> entries, like the Map
Freshen(f, name, args, error) ==
  LET kept == SelectSeq(f, LAMBDA en : ~Writes(name, args, en[1]))
  IN  IF name = "setItem"
      THEN IF IsNullish(error) THEN Append(kept, <<Arg(args, 1), Arg(args, 2)>>) ELSE f
      ELSE kept

Await(name, args) ==
  /\ stack = "idle"
  /\ immediates = <<>>
  /\ last.call = NoCall
  /\ LET Ended(r) ==
           /\ internal' = r.store
           /\ last' = [call   |-> SettleCall([NewCall(name, args) EXCEPT
                                                !.pc = "awaiting",
                                                !.error = r.error,
                                                !.result = r.result]),
                       before |-> internal]
           /\ fresh' = Freshen(fresh, name, Stripped(args), r.error)
     IN  Ended(Ran(NewCall(name, args), internal))
  /\ UNCHANGED <<calls, immediates, stack, issued>>

\* the caller goes on with the code after the await
Proceed ==
  /\ last.call # NoCall
  /\ last' = [call |-> NoCall, before |-> <<>>]
  /\ UNCHANGED <<internal, calls, immediates, stack, issued, fresh>>

NameLists == {Arr(q) : q \in SeqsUpTo(Keys, MaxLen)}
PairLists == {Arr(q) : q \in SeqsUpTo({PairOf(k, v) : k \in Keys, v \in Values}, MaxLen)}

AwaitGetItem == \E k \in Keys : Await("getItem", <<k>>)

AwaitSetItem == \E k \in Keys, v \in Values : Await("setItem", <<k, v>>)

AwaitMergeItem == \E k \in Keys, v \in Values : Await("mergeItem", <<k, v>>)

AwaitRemoveItem == \E k \in Keys : Await("removeItem", <<k>>)

AwaitMultiGet == \E names \in NameLists : Await("multiGet", <<names>>)

AwaitMultiSet == \E pairs \in PairLists : Await("multiSet", <<pairs>>)

AwaitMultiMerge == \E pairs \in PairLists : Await("multiMerge", <<pairs>>)

AwaitMultiRemove == \E names \in NameLists : Await("multiRemove", <<names>>)

AwaitGetAllKeys == Await("getAllKeys", <<>>)

AwaitClear == Await("clear", <<>>)

AwaitFlushGetRequests == Await("flushGetRequests", <<>>)

AwaitNext ==
  \/ AwaitGetItem
  \/ AwaitSetItem
  \/ AwaitMergeItem
  \/ AwaitRemoveItem
  \/ AwaitMultiGet
  \/ AwaitMultiSet
  \/ AwaitMultiMerge
  \/ AwaitMultiRemove
  \/ AwaitGetAllKeys
  \/ AwaitClear
  \/ AwaitFlushGetRequests
  \/ Proceed

AwaitSpec == Init /\ [][AwaitNext]_vars

----------------------------------------------------------------------------
(* a caller that sets, merges and removes one key with JSON documents, as   *)
(* the tests of mergeItem and multiMerge do with JSON.stringify({...})      *)

One   == Num(<<"1">>)
Two   == Num(<<"2">>)
Three == Num(<<"3">>)
Seven == Num(<<"7">>)
Word  == Str(<<"x", "y">>)

\* {f: 1}
DocFlat == Obj(<<<<<<"f">>, One>>>>)

\* {f: 'xy', d: {f: 1}}
DocDeep == Obj(<<<<<<"f">>, Word>>, <<<<"d">>, DocFlat>>>>)

\* {d: {f: 2}}
DocOver == Obj(<<<<<<"d">>, Obj(<<<<<<"f">>, Two>>>>)>>>>)

\* {d: {g: {h: 3}}}
DocNested == Obj(<<<<<<"d">>, Obj(<<<<<<"g">>, Obj(<<<<<<"h">>, Three>>>>)>>>>)>>>>)

\* {a: [1, 2, 3]} and {a: [7]}
DocArray3 == Obj(<<<<<<"a">>, Arr(<<One, Two, Three>>)>>>>)
DocArray1 == Obj(<<<<<<"a">>, Arr(<<Seven>>)>>>>)

\* {d: 'xy'}, {d: 1}, {d: true} and {d: null}
DocString  == Obj(<<<<<<"d">>, Word>>>>)
DocNumber  == Obj(<<<<<<"d">>, One>>>>)
DocBoolean == Obj(<<<<<<"d">>, True>>>>)
DocNull    == Obj(<<<<<<"d">>, Null>>>>)

Docs ==
  {JSONStringify(d) : d \in {DocFlat, DocDeep, DocOver, DocNested, DocArray3, DocArray1,
                             DocString, DocNumber, DocBoolean, DocNull}}
    \cup {Plain}

DocSetItem == \E v \in Docs : Await("setItem", <<KeyA, v>>)

DocMergeItem == \E v \in Docs : Await("mergeItem", <<KeyA, v>>)

DocMultiMerge == \E v \in Docs : Await("multiMerge", <<Arr(<<PairOf(KeyA, v)>>)>>)

DocRemoveItem == Await("removeItem", <<KeyA>>)

DocNext ==
  \/ DocSetItem
  \/ DocMergeItem
  \/ DocMultiMerge
  \/ DocRemoveItem
  \/ Proceed

DocSpec == Init /\ [][DocNext]_vars

----------------------------------------------------------------------------
(* callers that find a Map other callers filled and make calls without     *)
(* awaiting them: merges of two documents, multi calls of two entries and  *)
(* the reads that observe them                                             *)

\* the Map the callers find, kept in last.before
Seeds ==
  {<<>>,
   <<<<KeyA, Json1>>>>,
   <<<<KeyA, Json2>>, <<KeyB, Plain>>>>}

SerialInit ==
  /\ internal \in Seeds
  /\ calls = <<>>
  /\ immediates = <<>>
  /\ stack = "idle"
  /\ issued = {}
  /\ last = [call |-> NoCall, before |-> internal]
  /\ fresh = <<>>

SerialNames == {Arr(<<KeyA, KeyB>>)}

SerialPairs ==
  {Arr(<<PairOf(KeyA, Json1), PairOf(KeyB, Json2)>>),
   Arr(<<PairOf(KeyB, Json1), PairOf(KeyA, NotString)>>)}

SerialGetItem == \E k \in Keys : wrapper("getItem", <<k>>)

SerialMergeItem == \E v \in {Json1, Json2} : wrapper("mergeItem", <<KeyA, v>>)

SerialMultiGet == \E names \in SerialNames : wrapper("multiGet", <<names>>)

SerialMultiSet == \E pairs \in SerialPairs : wrapper("multiSet", <<pairs>>)

SerialMultiMerge == \E pairs \in SerialPairs : wrapper("multiMerge", <<pairs>>)

SerialMultiRemove == \E names \in SerialNames : wrapper("multiRemove", <<names>>)

SerialNext ==
  \/ CallerEnter
  \/ CallerReturn
  \/ SerialGetItem
  \/ SerialMergeItem
  \/ SerialMultiGet
  \/ SerialMultiSet
  \/ SerialMultiMerge
  \/ SerialMultiRemove
  \/ forcedAsync
  \/ forcedAsyncResume

SerialSpec == SerialInit /\ [][SerialNext]_vars

\* a step of forcedAsync as the queue shows it: the only step that takes
\* the head of immediates
TakeImmediate ==
  /\ stack = "idle"
  /\ Awaiting = {}
  /\ immediates # <<>>
  /\ immediates' = Tail(immediates)

\* the event loop reaches its immediates however often callers come in
\* between (SF); a running stack returns and a microtask runs (WF)
FairSpec ==
  /\ Spec
  /\ SF_immediates(TakeImmediate)
  /\ WF_vars(forcedAsyncResume)
  /\ WF_vars(CallerReturn)

----------------------------------------------------------------------------
(* properties                                                              *)

\* what getItem yields for key k on the Map m
Yield(m, k) == getItem(m, <<k>>).result

Min(S) == CHOOSE m \in S : \A n \in S : m <= n
Max(S) == CHOOSE m \in S : \A n \in S : n <= m

\* C1: once setItem(k, v) has succeeded and no later call has written,
\* merged, removed or cleared k, getItem(k) succeeds and yields exactly v
C1_RoundTrip ==
  (last.call.name = "getItem" /\ MapHas(fresh, Arg(last.call.args, 1))) =>
    /\ IsNullish(last.call.error)
    /\ last.call.result = MapGet(fresh, Arg(last.call.args, 1))
    /\ last.call.promise = "resolved"
    /\ last.call.value = MapGet(fresh, Arg(last.call.args, 1))

\* getItem(a) yields what the latest setItem(a, v) stored, while b, stored
\* before a, was written in another way since
C1_Witness ==
  /\ last.call.name = "getItem"
  /\ Arg(last.call.args, 1) = KeyA
  /\ MapHas(fresh, KeyA)
  /\ ~MapHas(fresh, KeyB)
  /\ MapHas(internal, KeyB)
  /\ internal[1][1] = KeyB

\* C2: while the code that made a call is still running, the body of the
\* call has not started, its callback has not been called and its promise
\* is not settled
C2_Asynchrony ==
  stack = "caller" =>
    \A id \in issued :
      /\ calls[id].pc = "scheduled"
      /\ calls[id].called = <<>>
      /\ calls[id].promise = "pending"

\* the caller made a setItem with a callback and is still running
C2_Witness ==
  /\ stack = "caller"
  /\ \E id \in issued :
       /\ calls[id].name = "setItem"
       /\ HasCallback(calls[id].args)
       /\ TypeOf(Arg(calls[id].args, 2)) = "string"
       /\ internal = <<>>

\* C3: of two calls the one made first has its body run first and its
\* completion delivered first
C3_Fifo ==
  \A i, j \in 1..Len(calls) :
    i < j =>
      /\ (calls[j].pc # "scheduled" => calls[i].pc # "scheduled")
      /\ (calls[j].pc = "done" => calls[i].pc = "done")

\* two calls were scheduled together, the first has completed and the
\* second has not started
C3_Witness ==
  /\ Len(calls) >= 2
  /\ calls[1].pc = "done"
  /\ calls[2].pc = "scheduled"
  /\ stack = "idle"

\* C4 as claimed: every callback gets (error, result) with exactly one of
\* the two non-null
C4_ExactlyOne ==
  \A id \in 1..Len(calls) :
    \A n \in 1..Len(calls[id].called) :
      IsNullish(calls[id].called[n][1]) # IsNullish(calls[id].called[n][2])

NullResults == {"getItem", "multiMerge", "clear", "flushGetRequests"}

\* C4 as amended: every callback gets (error, result) with at most one of
\* the two non-null: a failure gives a non-null error and an undefined
\* result; a success gives a null error and what the body returned, which
\* is non-null for every method but getItem, multiMerge, clear and
\* flushGetRequests
C4_AtMostOne ==
  \A id \in 1..Len(calls) :
    \A n \in 1..Len(calls[id].called) :
      LET error  == calls[id].called[n][1]
          result == calls[id].called[n][2]
      IN  /\ IsNullish(error) \/ result = Undefined
          /\ (IsNullish(error) /\ IsNullish(result)) => calls[id].name \in NullResults
          /\ calls[id].name \in {"multiMerge", "clear", "flushGetRequests"}
               => result = Undefined
          /\ (calls[id].name = "getItem" /\ IsNullish(result))
               => error = Null /\ result = Null

\* a callback got an error without a result and another got neither
C4_Witness ==
  /\ Len(calls) >= 2
  /\ calls[1].called # <<>>
  /\ ~IsNullish(calls[1].called[1][1])
  /\ calls[2].called # <<>>
  /\ calls[2].name = "clear"
  /\ IsNullish(calls[2].called[1][1])

\* a value setItem and mergeItem refuse
Refused(c) ==
  /\ c.name \in {"setItem", "mergeItem"}
  /\ TypeOf(Arg(Stripped(c.args), 2)) # "string"

\* the one outcome of a call that completed, through its one channel
OneOutcome(c) ==
  IF HasCallback(c.args)
  THEN /\ Len(c.called) = 1
       /\ c.promise = "pending"
       /\ IsNullish(c.called[1][1]) \/ IsNullish(c.called[1][2])
       /\ Refused(c) => ~IsNullish(c.called[1][1])
       /\ IsNullish(c.called[1][1]) => c.called[1][2] = c.result
  ELSE /\ c.called = <<>>
       /\ c.promise \in {"resolved", "rejected"}
       /\ Refused(c) => c.promise = "rejected" /\ ~IsNullish(c.value)
       /\ c.promise = "resolved" => IsNullish(c.error) /\ c.value = c.result
       /\ c.promise = "rejected" => ~IsNullish(c.error) /\ c.value = c.error

C5_Safe ==
  \A id \in 1..Len(calls) :
    IF calls[id].pc = "done" THEN OneOutcome(calls[id])
    ELSE calls[id].called = <<>> /\ calls[id].promise = "pending"

C5_Once ==
  \A id \in 1..Len(calls) : calls[id].pc = "done" => calls'[id] = calls[id]

\* C5: every call completes, and completes once through one channel: its
\* callback is called once, or else its promise is settled once, resolved
\* with the result of the body or rejected with the error it threw
C5_SingleCompletion ==
  /\ []C5_Safe
  /\ [][C5_Once]_vars
  /\ \A id \in 1..MaxOps :
       (Len(calls) >= id) ~> (Len(calls) >= id /\ calls[id].pc = "done")

\* a refused setItem was rejected and a call with a callback completed
C5_Witness ==
  /\ Len(calls) >= 2
  /\ \E i, j \in 1..Len(calls) :
       /\ calls[i].pc = "done" /\ Refused(calls[i]) /\ calls[i].promise = "rejected"
       /\ calls[j].pc = "done" /\ Len(calls[j].called) = 1

\* C6: every value in the Map is a string
C6_StringOnly ==
  \A i \in 1..Len(internal) : TypeOf(internal[i][2]) = "string"

\* a multiSet with a value that is not a string failed after it stored
\* another pair
C6_Witness ==
  /\ last.call.name = "multiSet"
  /\ ~IsNullish(last.call.error)
  /\ internal # last.before

C7_Deferred ==
  \A id \in 1..Len(calls) :
    (calls[id].name = "setItem" /\ Refused(calls[id])) =>
      /\ id \in issued =>
           calls[id].pc = "scheduled" /\ calls[id].promise = "pending"
      /\ calls[id].pc = "done" =>
           IF HasCallback(calls[id].args)
           THEN /\ Len(calls[id].called) = 1
                /\ ~IsNullish(calls[id].called[1][1])
           ELSE calls[id].promise = "rejected" /\ ~IsNullish(calls[id].value)

C7_Untouched ==
  \A id \in 1..Len(calls) :
    (/\ calls[id].name = "setItem"
     /\ Refused(calls[id])
     /\ calls[id].pc = "scheduled"
     /\ calls'[id].pc # "scheduled") => internal' = internal

\* C7: setItem(k, v) with a v that is not a string returns to its caller
\* with a pending promise, reports an error through the callback or the
\* rejected promise, and leaves the Map as it was
C7_SetItemGuard == []C7_Deferred /\ [][C7_Untouched]_vars

\* a refused setItem(a, {}) completed and a still has its value
C7_Witness ==
  /\ Len(calls) >= 2
  /\ calls[2].name = "setItem"
  /\ Refused(calls[2])
  /\ calls[2].pc = "done"
  /\ MapHas(internal, KeyA)

\* the pairs of the multiSet that completed, and the first one refused
SetPairs == Elements(Arg(last.call.args, 1))

SetBad == {i \in 1..Len(SetPairs) : TypeOf(Get(SetPairs[i], <<"1">>)) # "string"}

SetApplied == IF SetBad = {} THEN Len(SetPairs) ELSE Min(SetBad) - 1

\* C8: a multiSet fails exactly when a value is not a string; the pairs
\* before the first such value are applied in order, a later pair for a key
\* winning, and none of the pairs from it on; a success yields the pairs
C8_MultiSetPartial ==
  last.call.name = "multiSet" =>
    /\ IsNullish(last.call.error) = (SetBad = {})
    /\ SetBad = {} => last.call.result = Arg(last.call.args, 1)
    /\ \A k \in Keys :
         LET at == {i \in 1..SetApplied : Get(SetPairs[i], <<"0">>) = k}
         IN  Yield(internal, k) =
               IF at = {} THEN Yield(last.before, k)
               ELSE Get(SetPairs[Max(at)], <<"1">>)

\* a multiSet failed at its second pair on a Map that held a value
C8_Witness ==
  /\ last.call.name = "multiSet"
  /\ SetBad # {}
  /\ SetApplied = 1
  /\ last.before # <<>>
  /\ Yield(internal, Get(SetPairs[1], <<"0">>)) # Yield(last.before, Get(SetPairs[1], <<"0">>))

\* C9: multiGet yields one pair per name, in the order of the names, of
\* the name and its value, null for a name that is not stored, and leaves
\* the Map as it was
C9_MultiGet ==
  last.call.name = "multiGet" =>
    LET names == Elements(Arg(last.call.args, 1))
        pairs == Elements(last.call.result)
    IN  /\ IsNullish(last.call.error)
        /\ last.call.result.t = "array"
        /\ Len(pairs) = Len(names)
        /\ \A i \in 1..Len(names) :
             /\ Elements(pairs[i]) = <<names[i], Yield(last.before, names[i])>>
             /\ (\A j \in 1..Len(last.before) : last.before[j][1] # names[i])
                  => Get(pairs[i], <<"1">>) = Null
             /\ \A j \in 1..Len(last.before) :
                  last.before[j][1] = names[i] => Get(pairs[i], <<"1">>) = last.before[j][2]
        /\ internal = last.before

\* a multiGet of a name twice, or of a stored and a missing name
C9_Witness ==
  /\ last.call.name = "multiGet"
  /\ Len(Elements(Arg(last.call.args, 1))) = 2
  /\ Get(Elements(last.call.result)[1], <<"1">>) = Null
  /\ Get(Elements(last.call.result)[2], <<"1">>) # Null

\* the names of the multiRemove that completed
RemoveNames == Elements(Arg(last.call.args, 1))

\* C10 as claimed: the boolean of a name tells whether the name was stored
\* when the multiRemove began
C10_ExistedAtStart ==
  last.call.name = "multiRemove" =>
    /\ Len(Elements(last.call.result)) = Len(RemoveNames)
    /\ \A i \in 1..Len(RemoveNames) :
         Elements(last.call.result)[i] = Bool(MapHas(last.before, RemoveNames[i]))

\* C10 as amended: multiRemove yields one boolean per name, in the order
\* of the names, true exactly when the name was stored when the multiRemove
\* began and does not occur earlier in the input; afterwards getItem yields
\* null for every name and other keys keep their values
C10_MultiRemove ==
  last.call.name = "multiRemove" =>
    /\ IsNullish(last.call.error)
    /\ last.call.result.t = "array"
    /\ Len(Elements(last.call.result)) = Len(RemoveNames)
    /\ \A i \in 1..Len(RemoveNames) :
         Elements(last.call.result)[i] =
           Bool(/\ Yield(last.before, RemoveNames[i]) # Null
                /\ \A j \in 1..(i - 1) : RemoveNames[j] # RemoveNames[i])
    /\ \A i \in 1..Len(RemoveNames) : Yield(internal, RemoveNames[i]) = Null
    /\ \A k \in Keys :
         (\A i \in 1..Len(RemoveNames) : RemoveNames[i] # k)
           => Yield(internal, k) = Yield(last.before, k)

\* a multiRemove named a stored key twice while another key was stored
C10_Witness ==
  /\ last.call.name = "multiRemove"
  /\ Len(RemoveNames) = 2
  /\ RemoveNames[1] = RemoveNames[2]
  /\ MapHas(last.before, RemoveNames[1])
  /\ internal # <<>>

\* where key k stands in the sequence of keys K, 0 when it is not there
Position(K, k) ==
  IF \E i \in 1..Len(K) : K[i] = k THEN Min({i \in 1..Len(K) : K[i] = k}) ELSE 0

\* the keys in the order the pairs of a multiSet name them
PairKeys(c) ==
  IF c.name = "multiSet"
  THEN [i \in 1..ArrayLength(Arg(c.args, 1)) |-> Get(Elements(Arg(c.args, 1))[i], <<"0">>)]
  ELSE <<>>

C11_Listed ==
  /\ \A i, j \in 1..Len(internal) : i < j => internal[i][1] # internal[j][1]
  /\ last.call.name = "getAllKeys" =>
       /\ IsNullish(last.call.error)
       /\ last.call.result.t = "array"
       /\ Elements(last.call.result) = [i \in 1..Len(internal) |-> internal[i][1]]
       /\ \A k \in Keys :
            (Yield(internal, k) # Null) = (Position(Elements(last.call.result), k) > 0)

C11_Ordered ==
  \A i, j \in 1..Len(internal') :
    i < j =>
      LET old == Position(MapKeys(internal), internal'[i][1])
          new == Position(MapKeys(internal), internal'[j][1])
      IN  /\ new > 0 => (old > 0 /\ old < new)
          /\ (old = 0 /\ new = 0) =>
               Position(PairKeys(last'.call), internal'[i][1])
                 < Position(PairKeys(last'.call), internal'[j][1])

\* C11: getAllKeys yields the stored keys, each once, in the order of
\* their insertion: a call leaves the keys that stay in the order they had,
\* also those it overwrites or merges, and puts the keys it inserts, also
\* those removed or cleared before, after them in the order it inserts them
C11_GetAllKeys == []C11_Listed /\ [][C11_Ordered]_vars

\* getAllKeys lists b before a, b set first and merged since
C11_Witness ==
  /\ last.call.name = "getAllKeys"
  /\ Len(Elements(last.call.result)) = 2
  /\ Elements(last.call.result)[1] = KeyB
  /\ MapHas(fresh, KeyA)
  /\ ~MapHas(fresh, KeyB)

\* the methods that can put a key into the Map
Writers == {"setItem", "mergeItem", "multiSet", "multiMerge"}

C12_Empty ==
  /\ last.call.name = "clear" =>
       /\ IsNullish(last.call.error)
       /\ last.call.promise = "resolved"
       /\ internal = <<>>
       /\ \A k \in Keys : Yield(internal, k) = Null
  /\ (last.call.name = "getItem" /\ last.before = <<>>) =>
       IsNullish(last.call.error) /\ last.call.result = Null
  /\ (last.call.name = "multiGet" /\ last.before = <<>>) =>
       /\ IsNullish(last.call.error)
       /\ \A i \in 1..Len(Elements(last.call.result)) :
            Get(Elements(last.call.result)[i], <<"1">>) = Null
  /\ (last.call.name = "getAllKeys" /\ last.before = <<>>) =>
       IsNullish(last.call.error) /\ last.call.result = Arr(<<>>)

C12_Stays ==
  (internal = <<>> /\ last'.call.name \notin Writers) => internal' = <<>>

\* C12: clear succeeds and leaves the Map empty whatever it held; the Map
\* stays empty until a write runs, and on the empty Map getAllKeys yields
\* the empty array and getItem and multiGet yield null for every key
C12_Clear == []C12_Empty /\ [][C12_Stays]_vars

\* a clear completed on a Map that held two keys
C12_Witness ==
  /\ last.call.name = "clear"
  /\ Len(last.before) = 2
  /\ internal = <<>>

\* no entry of the Map m has the key k
Absent(m, k) == \A i \in 1..Len(m) : m[i][1] # k

\* the call removes the key k
Removes(c, k) ==
  \/ c.name = "removeItem" /\ Arg(c.args, 1) = k
  \/ c.name = "multiRemove" /\ Position(Elements(Arg(c.args, 1)), k) > 0
  \/ c.name = "clear"

\* the call is a write that names the key k
Puts(c, k) == c.name \in Writers /\ Writes(c.name, c.args, k)

C13_Null ==
  /\ (last.call.name = "getItem" /\ Absent(last.before, Arg(last.call.args, 1))) =>
       /\ IsNullish(last.call.error)
       /\ last.call.result = Null
       /\ last.call.promise = "resolved"
       /\ last.call.value = Null
  /\ (last.call.name = "removeItem" /\ Absent(last.before, Arg(last.call.args, 1))) =>
       /\ IsNullish(last.call.error)
       /\ last.call.promise = "resolved"
       /\ last.call.result = False
       /\ internal = last.before

C13_Gone ==
  \A k \in Keys :
    /\ Removes(last'.call, k) => Absent(internal', k)
    /\ (Absent(internal, k) /\ ~Puts(last'.call, k)) => Absent(internal', k)

\* C13: a key is absent from the first, after every removeItem, multiRemove
\* or clear that removes it, and until a write names it; getItem of an
\* absent key succeeds with null, and removeItem of an absent key succeeds
\* and leaves the Map as it was
C13_Absence == []C13_Null /\ [][C13_Gone]_vars

\* removeItem of a key that is not stored while another key is
C13_Witness ==
  /\ last.call.name = "removeItem"
  /\ Absent(last.before, Arg(last.call.args, 1))
  /\ internal # <<>>
  /\ last.call.result = False

IsPlain(v) == v.t = "object"

IsLeaf(v) == v.t \in {"string", "number", "boolean", "null"}

KeySet(v) == {v.e[i][1] : i \in 1..Len(v.e)}

\* the key, the stored value and the incoming value of the mergeItem that
\* completed, decoded
MergeKey == Arg(last.call.args, 1)

MergeOld == JSONParse(MapGet(last.before, MergeKey))

MergeNew == JSONParse(Arg(last.call.args, 2))

MergeOut == JSONParse(MapGet(internal, MergeKey))

\* t and d are objects, and wherever d holds a nested object t holds an
\* object to merge it with, at every depth
RECURSIVE DeepCase(_, _)
DeepCase(t, d) ==
  /\ IsPlain(t)
  /\ IsPlain(d)
  /\ \A k \in KeySet(d) :
       \/ IsLeaf(Get(d, k))
       \/ /\ IsPlain(Get(d, k))
          /\ k \in KeySet(t)
          /\ DeepCase(Get(t, k), Get(d, k))

\* r is the deep merge of d into t
RECURSIVE DeepMerged(_, _, _)
DeepMerged(r, t, d) ==
  /\ IsPlain(r)
  /\ KeySet(r) = KeySet(t) \cup KeySet(d)
  /\ \A k \in KeySet(r) :
       IF k \notin KeySet(d) THEN Get(r, k) = Get(t, k)
       ELSE IF IsLeaf(Get(d, k)) THEN Get(r, k) = Get(d, k)
       ELSE DeepMerged(Get(r, k), Get(t, k), Get(d, k))

MergedPair ==
  IF last.call.name = "mergeItem" THEN Arr(last.call.args)
  ELSE Elements(Arg(last.call.args, 1))[1]

PairOld == JSONParse(MapGet(last.before, Get(MergedPair, <<"0">>)))

PairNew == JSONParse(Get(MergedPair, <<"1">>))

PairOut == JSONParse(MapGet(internal, Get(MergedPair, <<"0">>)))

\* the keys at which the stored and the incoming object both hold an array
BothArrays ==
  {k \in KeySet(PairNew.v) \cap KeySet(PairOld.v) :
     Get(PairNew.v, k).t = "array" /\ Get(PairOld.v, k).t = "array"}

\* C15: when mergeItem or multiMerge merges an object that holds an array
\* at a key into a stored object that holds an array at that key, the
\* stored result holds exactly the incoming array at that key
C15_ArraysReplaced ==
  (/\ last.call.name \in {"mergeItem", "multiMerge"}
   /\ PairOld.ok /\ IsPlain(PairOld.v)
   /\ PairNew.ok /\ IsPlain(PairNew.v)) =>
    \A k \in BothArrays :
      /\ IsNullish(last.call.error)
      /\ PairOut.ok
      /\ Get(PairOut.v, k) = Get(PairNew.v, k)

\* the same arguments in the other mode: without the trailing callback, or
\* with one
Toggle(args) == IF HasCallback(args) THEN Stripped(args) ELSE Append(args, Fn)

\* the body of a call leaves the Map, the error and the result that the
\* same call in the other mode leaves on the same Map
C16_SameEffect ==
  \A id \in 1..Len(calls) :
    (calls[id].pc = "scheduled" /\ calls'[id].pc = "awaiting") =>
      LET twin == NewCall(calls[id].name, Toggle(calls[id].args))
      IN  /\ internal' = Ran(twin, internal).store
          /\ calls'[id].error = RunCall(twin, internal).error
          /\ calls'[id].result = RunCall(twin, internal).result

\* the callback gets an error exactly when the promise of the same call in
\* the other mode is rejected, and else the result the promise resolves to
C16_SameOutcome ==
  \A id \in 1..Len(calls) :
    (calls[id].pc = "awaiting" /\ calls'[id].pc = "done") =>
      LET twin == SettleCall([calls[id] EXCEPT !.args = Toggle(@)])
          cb   == IF HasCallback(calls[id].args) THEN calls'[id] ELSE twin
          pr   == IF HasCallback(calls[id].args) THEN twin ELSE calls'[id]
      IN  /\ Len(cb.called) = 1
          /\ pr.promise \in {"resolved", "rejected"}
          /\ (~IsNullish(cb.called[1][1])) = (pr.promise = "rejected")
          /\ pr.promise = "rejected" => cb.called[1][1] = pr.value
          /\ pr.promise = "resolved" => cb.called[1][2] = pr.value

\* C16: a call with a trailing callback and the same call without one have
\* the same effect on the Map, and the callback gets a non-null error
\* exactly when the promise is rejected and else the result the promise
\* resolves to
C16_DualMode == [][C16_SameEffect /\ C16_SameOutcome]_vars

\* the same call failed once with a callback and once without
C16_Witness ==
  /\ Len(calls) = 2
  /\ calls[1].pc = "done"
  /\ calls[2].pc = "done"
  /\ calls[1].name = calls[2].name
  /\ HasCallback(calls[1].args)
  /\ calls[2].args = Stripped(calls[1].args)
  /\ ~IsNullish(calls[1].called[1][1])
  /\ calls[2].promise = "rejected"

\* the keys at which the incoming object holds a nested object and the
\* stored object holds nothing, or a string, number, boolean or null
NoTarget ==
  {k \in KeySet(PairNew.v) :
     /\ IsPlain(Get(PairNew.v, k))
     /\ k \notin KeySet(PairOld.v) \/ IsLeaf(Get(PairOld.v, k))}

\* C17: when the incoming object holds a nested object at a key at which
\* the stored object holds nothing or a value that is not an object, the
\* merge succeeds and the stored result holds exactly the incoming nested
\* object at that key
C17_AbsentTarget ==
  (/\ last.call.name \in {"mergeItem", "multiMerge"}
   /\ PairOld.ok /\ IsPlain(PairOld.v)
   /\ PairNew.ok /\ IsPlain(PairNew.v)) =>
    \A k \in NoTarget :
      /\ IsNullish(last.call.error)
      /\ PairOut.ok
      /\ Get(PairOut.v, k) = Get(PairNew.v, k)

\* the calls whose body has run
Started == {id \in 1..Len(calls) : calls[id].pc # "scheduled"}

\* what call n finds and leaves when the calls run one at a time, in the
\* order they were made, on the Map m
RECURSIVE OneAtATime(_, _)
OneAtATime(m, n) ==
  IF n = 0 THEN Returns(m, Undefined)
  ELSE Ran(calls[n], OneAtATime(m, n - 1).store)

\* C18: the bodies of calls made without awaiting one another run one at a
\* time in the order the calls were made: the calls that ran are the first
\* ones made, each got the error and the result it gets when the calls run
\* one at a time in that order, and the Map is the one they leave
C18_Serialized ==
  /\ Started = 1..Cardinality(Started)
  /\ internal = OneAtATime(last.before, Cardinality(Started)).store
  /\ \A id \in Started :
       /\ calls[id].error = OneAtATime(last.before, id).error
       /\ calls[id].result = OneAtATime(last.before, id).result
       /\ calls[id].pc = "done" =>
            IF IsNullish(calls[id].error)
            THEN calls[id].promise = "resolved" /\ calls[id].value = calls[id].result
            ELSE calls[id].promise = "rejected" /\ calls[id].value = calls[id].error

\* two mergeItem of different documents on one stored value, made without
\* awaiting the first, both succeeded
C18_Witness ==
  /\ Len(calls) = 2
  /\ calls[1].name = "mergeItem"
  /\ calls[2].name = "mergeItem"
  /\ calls[1].args # calls[2].args
  /\ calls[2].pc = "done"
  /\ IsNullish(calls[1].error)
  /\ IsNullish(calls[2].error)
  /\ internal # OneAtATime(last.before, 1).store

\* C19: mergeItem(k, v) with a string v fails, the error rejecting the
\* promise, and leaves the Map as it was whenever k is not stored, the
\* stored value of k is not valid JSON or v is not valid JSON
C19_MergeUndecodable ==
  (/\ last.call.name = "mergeItem"
   /\ TypeOf(Arg(last.call.args, 2)) = "string"
   /\ \/ Absent(last.before, MergeKey)
      \/ ~MergeOld.ok
      \/ ~MergeNew.ok) =>
    /\ ~IsNullish(last.call.error)
    /\ last.call.pc = "done"
    /\ last.call.promise = "rejected"
    /\ last.call.value = last.call.error
    /\ internal = last.before

\* a mergeItem of valid JSON failed on a key that is not stored
C19_Witness ==
  /\ last.call.name = "mergeItem"
  /\ Absent(last.before, MergeKey)
  /\ MergeNew.ok
  /\ last.call.promise = "rejected"
  /\ internal = <<>>

\* C20: the promise of a call made with a trailing callback stays
\* pending, when the call succeeds and when it fails: it is never resolved
\* nor rejected, and the outcome reaches the callback only
C20_PromisePending ==
  \A id \in 1..Len(calls) :
    HasCallback(calls[id].args) =>
      /\ calls[id].promise = "pending"
      /\ calls[id].value = Undefined
      /\ calls[id].pc = "done" =>
           /\ Len(calls[id].called) = 1
           /\ calls[id].called[1] = <<calls[id].error, calls[id].result>>

\* a call with a callback succeeded, another failed, both have completed
C20_Witness ==
  /\ Len(calls) = 2
  /\ \A id \in 1..2 :
       /\ HasCallback(calls[id].args)
       /\ calls[id].pc = "done"
       /\ calls[id].promise = "pending"
  /\ IsNullish(calls[1].called[1][1])
  /\ ~IsNullish(calls[2].called[1][1])

====
